---- MODULE Spec2Model ----
(***************************************************************************)
(* Booking engine of the car rental backend (bookings/models.py,           *)
(* bookings/serializers.py, bookings/views.py).                            *)
(*                                                                         *)
(* The store is the bookings table: a sequence whose index is the primary  *)
(* key.  Instants are counted in ticks of half a day; money is counted in  *)
(* cents.  Every request handler is one operator that maps the current     *)
(* store and the request to the HTTP status code and the store afterwards; *)
(* the action of the handler installs the store of an accepted request.    *)
(* Aware datetimes are assumed (USE_TZ on), as timezone.now() and          *)
(* replace(tzinfo=timezone.utc) in the views suggest.                      *)
(* created_at / updated_at are not modelled.  draft is a Booking instance   *)
(* in memory, not stored, on which calculate_total_amount() is called.     *)
(***************************************************************************)
EXTENDS Integers, Sequences, FiniteSets, TLC

VARIABLES now, vehicles, bookings, inflight, draft, payments

vars == <<now, vehicles, bookings, inflight, draft, payments>>

\* ------------------------------------------------------------------ bounds
MaxTime == 3
MaxBookings == 2
MaxRate == 10
MaxAmount == 3
MaxPayments == 4

\* ------------------------------------------------------- program constants
SecondsPerDay == 86400
ReasonMaxLength == 500

HTTP_200_OK == 200
HTTP_201_CREATED == 201
HTTP_204_NO_CONTENT == 204
HTTP_400_BAD_REQUEST == 400
HTTP_404_NOT_FOUND == 404
HTTP_500_INTERNAL_SERVER_ERROR == 500

TickSeconds == SecondsPerDay \div 2
TicksPerDay == SecondsPerDay \div TickSeconds

STATUS_CHOICES ==
    {"pending", "confirmed", "active", "completed", "cancelled", "no_show"}

\* ------------------------------------------------------------ input domains
PAYMENT_STATUS_CHOICES == {"pending", "partial", "paid", "refunded", "failed"}

Users == {"alice", "bob"}
Times == 1..MaxTime
NoDate == -1
NoReason == -1
Absent == "absent"
Null == "null"
VehicleIds == {1, 2, 3, 4}
BookingNumbers == 1..MaxBookings

\* ------------------------------------------------------------------- money
\* Decimal quantize to an integer number of cents, ROUND_HALF_EVEN
\* (the rounding a DecimalField(decimal_places=2) value gets when stored).
RoundHalfEven(num, den) ==
    LET q == num \div den
        r == num % den
    IN  IF 2 * r < den THEN q
        ELSE IF 2 * r > den THEN q + 1
        ELSE IF q % 2 = 0 THEN q ELSE q + 1

\* duration.days + duration.seconds / 86400, as a fraction <<num, den>> of
\* days: (end - start) * TickSeconds / SecondsPerDay in lowest terms of ticks
DurationDays(start_date, end_date) ==
    <<end_date - start_date, TicksPerDay>>

\* calculate_total_amount counting duration.days only, the seconds dropped
calculate_total_amount_WholeDays(start_date, end_date, daily_rate) ==
    IF start_date # NoDate /\ end_date # NoDate /\ daily_rate # 0
    THEN LET d == DurationDays(start_date, end_date)
         IN  daily_rate * (d[1] \div d[2])
    ELSE 0

\* Booking.calculate_total_amount: daily_rate * days, or 0.00 when a part is
\* missing or the rate is falsy (zero).  The result is the stored amount.
calculate_total_amount(start_date, end_date, daily_rate) ==
    IF start_date # NoDate /\ end_date # NoDate /\ daily_rate # 0
    THEN LET d == DurationDays(start_date, end_date)
         IN  RoundHalfEven(daily_rate * d[1], d[2])
    ELSE 0

\* the deposit cut to whole cents instead of rounded
DepositAmount_Truncated(start_date, end_date, daily_rate) ==
    LET d == DurationDays(start_date, end_date)
    IN  (daily_rate * d[1] * 2) \div (d[2] * 10)

\* BookingCreateSerializer.create: total_amount * Decimal('0.2'), stored
DepositAmount(start_date, end_date, daily_rate) ==
    LET d == DurationDays(start_date, end_date)
    IN  RoundHalfEven(daily_rate * d[1] * 2, d[2] * 10)

\* ----------------------------------------------------------------- vehicle
is_available(v) == v.status = "available"

\* ----------------------------------------------------------------- booking
\* can_cancel with the start compared by >= instead of >
is_active(b, t) ==
    b.status = "active" /\ b.start_date <= t /\ t <= b.end_date

\* is_upcoming that counts a booking starting right now
is_upcoming_NotStrict(b, t) ==
    b.status \in {"pending", "confirmed"} /\ b.start_date >= t

is_upcoming(b, t) ==
    b.status \in {"pending", "confirmed"} /\ b.start_date > t

is_completed(b) == b.status = "completed"

is_cancelled(b) == b.status = "cancelled"

can_cancel_NotStrict(b, t) ==
    b.status \in {"pending", "confirmed"} /\ b.start_date >= t

can_cancel(b, t) ==
    b.status \in {"pending", "confirmed"} /\ b.start_date > t

\* Booking.generate_booking_number: the codes the retry loop can return
generate_booking_number(store) ==
    BookingNumbers \ {store[i].booking_number : i \in DOMAIN store}

\* the overlap query with 'active' left out of status__in
OverlappingBookings_NoActive(store, vehicle_id, start_date, end_date) ==
    {i \in DOMAIN store :
        /\ store[i].vehicle = vehicle_id
        /\ store[i].status \in {"pending", "confirmed"}
        /\ store[i].start_date < end_date
        /\ store[i].end_date > start_date}

\* the overlap query with closed intervals (__lte / __gte)
OverlappingBookings_Closed(store, vehicle_id, start_date, end_date) ==
    {i \in DOMAIN store :
        /\ store[i].vehicle = vehicle_id
        /\ store[i].status \in {"pending", "confirmed", "active"}
        /\ store[i].start_date <= end_date
        /\ store[i].end_date >= start_date}

\* the overlap query without the status filter
OverlappingBookings_AnyStatus(store, vehicle_id, start_date, end_date) ==
    {i \in DOMAIN store :
        /\ store[i].vehicle = vehicle_id
        /\ store[i].start_date < end_date
        /\ store[i].end_date > start_date}

\* The overlap query of BookingCreateSerializer.validate
OverlappingBookings(store, vehicle_id, start_date, end_date) ==
    {i \in DOMAIN store :
        /\ store[i].vehicle = vehicle_id
        /\ store[i].status \in {"pending", "confirmed", "active"}
        /\ store[i].start_date < end_date
        /\ store[i].end_date > start_date}

\* ---------------------------------------------- POST /bookings/ (create)
\* A create request body.  start_raw is the form of the start_date string in
\* the body: with a UTC offset ("aware") or without one ("naive").
CreateRequests ==
    [vehicle_id : VehicleIds,
     start_date : Times \cup {NoDate},
     end_date : Times \cup {NoDate},
     start_raw : {"aware", "naive"},
     pickup_location : {"depot"},
     return_location : {"depot"},
     notes : {Null}]

\* datetime.fromisoformat(raw) compared with the aware end value: a naive
\* start raises TypeError, which validate_end_date swallows.
IsoComparable(start_raw) == start_raw = "aware"

Create_validate_vehicle_id(vs, value) ==
    value \in DOMAIN vs /\ is_available(vs[value])

\* validate_start_date refusing only a start before now
Create_validate_start_date_NotStrict(value, t) == ~(value < t)

Create_validate_start_date(value, t) == ~(value <= t)

\* validate_end_date of both serializers: initial_data's start_date is used
validate_end_date(data) ==
    IF data.start_date # NoDate /\ IsoComparable(data.start_raw)
    THEN ~(data.end_date <= data.start_date)
    ELSE TRUE

Create_validate(store, data) ==
    OverlappingBookings(store, data.vehicle_id, data.start_date,
                        data.end_date) = {}

\* serializer.is_valid(): required fields, field validators, then validate()
Create_is_valid(store, vs, t, data) ==
    /\ data.start_date # NoDate
    /\ data.end_date # NoDate
    /\ Create_validate_vehicle_id(vs, data.vehicle_id)
    /\ Create_validate_start_date(data.start_date, t)
    /\ validate_end_date(data)
    /\ Create_validate(store, data)

\* Booking.save
Booking_save(b) ==
    IF b.total_amount = 0
    THEN [b EXCEPT !.total_amount =
              calculate_total_amount(b.start_date, b.end_date, b.daily_rate)]
    ELSE b

\* BookingCreateSerializer.create followed by Booking.save of the new row;
\* bn is the code generate_booking_number returned.
Create_create(vs, caller, data, bn) ==
    LET rate == vs[data.vehicle_id].daily_rate
    IN  Booking_save(
          [booking_number |-> bn,
           customer |-> caller,
           vehicle |-> data.vehicle_id,
           start_date |-> data.start_date,
           end_date |-> data.end_date,
           pickup_location |-> data.pickup_location,
           return_location |-> data.return_location,
           daily_rate |-> rate,
           total_amount |-> 0,
           deposit_amount |->
               DepositAmount(data.start_date, data.end_date, rate),
           status |-> "pending",
           payment_status |-> "pending",
           notes |-> data.notes,
           cancellation_reason |-> NoReason])

\* BookingListView.create: the response code and the store afterwards
BookingListView_create(caller, data, bn) ==
    IF Create_is_valid(bookings, vehicles, now, data)
    THEN [code |-> HTTP_201_CREATED,
          store |-> Append(bookings, Create_create(vehicles, caller, data, bn))]
    ELSE [code |-> HTTP_400_BAD_REQUEST, store |-> bookings]

\* ------------------------------------- PUT / PATCH /bookings/{id}/ (update)
\* Request bodies.  NoDate / Absent mark a key the body does not carry.
EmptyPatch ==
    [partial |-> TRUE, start_date |-> NoDate, end_date |-> NoDate,
     start_raw |-> "aware", status |-> Absent, pickup_location |-> Absent,
     return_location |-> Absent, notes |-> Absent]

\* both dates (PUT), or one date only (PATCH)
DateRequests ==
    {[EmptyPatch EXCEPT !.partial = FALSE, !.start_date = s, !.end_date = e,
                        !.start_raw = r] :
        s \in Times, e \in Times, r \in {"aware", "naive"}}
    \cup {[EmptyPatch EXCEPT !.start_date = s] : s \in Times}
    \cup {[EmptyPatch EXCEPT !.end_date = e] : e \in Times}

\* a status, alone or with new texts
StatusRequests ==
    {[EmptyPatch EXCEPT !.status = s, !.notes = x] :
        s \in STATUS_CHOICES \cup {"bogus"}, x \in {Absent, "edited"}}

\* locations and notes only (PATCH), and a PUT without the required dates
TextRequests ==
    {[EmptyPatch EXCEPT !.pickup_location = "edited",
                        !.return_location = "edited", !.notes = "edited"],
     [EmptyPatch EXCEPT !.partial = FALSE, !.notes = "edited"]}

UpdateRequests == DateRequests \cup StatusRequests \cup TextRequests

Update_validate_start_date(value, t) == ~(value <= t)

Update_validate_status(instance, value) ==
    ~(instance.status \in {"completed", "cancelled"})

\* serializer.is_valid() of BookingUpdateSerializer: the date fields are
\* required unless partial; a field validator runs only for a field present.
Update_is_valid(instance, t, data) ==
    /\ ~data.partial => (data.start_date # NoDate /\ data.end_date # NoDate)
    /\ data.start_date # NoDate =>
           Update_validate_start_date(data.start_date, t)
    /\ data.end_date # NoDate => validate_end_date(data)
    /\ data.status # Absent =>
           /\ data.status \in STATUS_CHOICES
           /\ Update_validate_status(instance, data.status)

\* ModelSerializer.update: setattr of every validated field, then save
\* an update that also works the deposit out again from the new interval
Update_update_NewDeposit(instance, data) ==
    LET b == [instance EXCEPT
                !.start_date = IF data.start_date # NoDate
                               THEN data.start_date ELSE @,
                !.end_date = IF data.end_date # NoDate
                             THEN data.end_date ELSE @,
                !.status = IF data.status # Absent THEN data.status ELSE @,
                !.pickup_location = IF data.pickup_location # Absent
                                    THEN data.pickup_location ELSE @,
                !.return_location = IF data.return_location # Absent
                                    THEN data.return_location ELSE @,
                !.notes = IF data.notes # Absent THEN data.notes ELSE @]
    IN  Booking_save([b EXCEPT !.deposit_amount =
                          DepositAmount(b.start_date, b.end_date,
                                        b.daily_rate)])

Update_update(instance, data) ==
    Booking_save(
      [instance EXCEPT
         !.start_date = IF data.start_date # NoDate
                        THEN data.start_date ELSE @,
         !.end_date = IF data.end_date # NoDate THEN data.end_date ELSE @,
         !.status = IF data.status # Absent THEN data.status ELSE @,
         !.pickup_location = IF data.pickup_location # Absent
                             THEN data.pickup_location ELSE @,
         !.return_location = IF data.return_location # Absent
                             THEN data.return_location ELSE @,
         !.notes = IF data.notes # Absent THEN data.notes ELSE @])

\* the lookup without the customer filter
OwnBooking_AnyCustomer(store, caller, pk) == pk \in DOMAIN store

\* get_queryset().get(pk): the caller's own bookings only
OwnBooking(store, caller, pk) ==
    pk \in DOMAIN store /\ store[pk].customer = caller

BookingDetailView_update(caller, pk, data) ==
    IF ~OwnBooking(bookings, caller, pk)
    THEN [code |-> HTTP_404_NOT_FOUND, store |-> bookings]
    ELSE IF ~Update_is_valid(bookings[pk], now, data)
    THEN [code |-> HTTP_400_BAD_REQUEST, store |-> bookings]
    ELSE [code |-> HTTP_200_OK,
          store |-> [bookings EXCEPT ![pk] = Update_update(@, data)]]

\* ------------------------------------------ GET /bookings/, /bookings/{id}/
\* the queryset without the customer filter
get_queryset_All(store, caller) == DOMAIN store

\* get_queryset of the list, detail and search views: the primary keys of
\* Booking.objects.filter(customer=request.user)
get_queryset(store, caller) ==
    {pk \in DOMAIN store : store[pk].customer = caller}

BookingListView_list(caller) ==
    [code |-> HTTP_200_OK, result |-> get_queryset(bookings, caller)]

\* BookingDetailView.retrieve: get_object() on the caller's queryset
BookingDetailView_retrieve(caller, pk) ==
    IF pk \in get_queryset(bookings, caller)
    THEN [code |-> HTTP_200_OK, result |-> {pk}]
    ELSE [code |-> HTTP_404_NOT_FOUND, result |-> {}]

\* ------------------------------------------------- GET /bookings/search/
\* The value of the query parameter 'from' or 'to': absent (or empty), a
\* date 'YYYY-MM-DD' of day value, a date with a time of day (tick value),
\* or any other text.
Days == 0..(MaxTime \div TicksPerDay + 1)

DateParams ==
    {[kind |-> "absent", value |-> 0], [kind |-> "text", value |-> 0]}
    \cup {[kind |-> "date", value |-> d] : d \in Days}
    \cup {[kind |-> "datetime", value |-> t] : t \in Times}

\* datetime.strptime(value, '%Y-%m-%d').replace(tzinfo=utc): midnight of the
\* day in ticks; anything that is not a bare date raises ValueError (NoDate)
strptime(param) ==
    IF param.kind = "date" THEN param.value * TicksPerDay ELSE NoDate

\* the search with the bounds excluded (__gt / __lt)
BookingSearchView_get_queryset_Exclusive(caller, from_date, to_date) ==
    LET from == IF from_date.kind # "absent"
                THEN strptime(from_date) ELSE NoDate
        to == IF to_date.kind # "absent" THEN strptime(to_date) ELSE NoDate
    IN  {pk \in get_queryset(bookings, caller) :
            /\ from # NoDate => bookings[pk].start_date > from
            /\ to # NoDate => bookings[pk].end_date < to}

\* BookingSearchView.get_queryset: a bound that raised ValueError is skipped
BookingSearchView_get_queryset(caller, from_date, to_date) ==
    LET from == IF from_date.kind # "absent"
                THEN strptime(from_date) ELSE NoDate
        to == IF to_date.kind # "absent" THEN strptime(to_date) ELSE NoDate
    IN  {pk \in get_queryset(bookings, caller) :
            /\ from # NoDate => bookings[pk].start_date >= from
            /\ to # NoDate => bookings[pk].end_date <= to}

BookingSearchView_list(caller, from_date, to_date) ==
    [code |-> HTTP_200_OK,
     result |-> BookingSearchView_get_queryset(caller, from_date, to_date)]

\* --------------------------------------------- POST /bookings/{id}/confirm/
\* the guard of confirm, also letting a confirmed booking through
confirm_allowed_AnyOpen(b) == b.status \in {"pending", "confirmed"}

\* the guard of BookingConfirmView.post
confirm_allowed(b) == b.status = "pending"

\* confirm that writes the status first and checks what it was afterwards
BookingConfirmView_post_WriteFirst(caller, pk) ==
    IF ~(pk \in DOMAIN bookings /\ bookings[pk].customer = caller)
    THEN [code |-> HTTP_404_NOT_FOUND, store |-> bookings]
    ELSE [code |-> IF bookings[pk].status = "pending"
                   THEN HTTP_200_OK ELSE HTTP_400_BAD_REQUEST,
          store |-> [bookings EXCEPT ![pk].status = "confirmed"]]

BookingConfirmView_post(caller, pk) ==
    IF ~OwnBooking(bookings, caller, pk)
    THEN [code |-> HTTP_404_NOT_FOUND, store |-> bookings]
    ELSE IF confirm_allowed(bookings[pk])
    THEN [code |-> HTTP_200_OK,
          store |-> [bookings EXCEPT
                       ![pk] = Booking_save([@ EXCEPT !.status = "confirmed"])]]
    ELSE [code |-> HTTP_400_BAD_REQUEST, store |-> bookings]

\* ---------------------------------------------- POST /bookings/{id}/cancel/
\* A cancellation_reason is given by its length after trimming; NoReason
\* stands for a body without the key.
ReasonInputs == {NoReason, 0, ReasonMaxLength, ReasonMaxLength + 1}

\* CharField(max_length=500, required=False): blank is rejected
Cancel_reason_valid(reason) ==
    reason = NoReason \/ (reason >= 1 /\ reason <= ReasonMaxLength)

\* BookingCancelSerializer.is_valid(): the field, then validate()
Cancel_is_valid(booking, t, reason) ==
    Cancel_reason_valid(reason) /\ can_cancel(booking, t)

\* Booking.cancel_booking: <<returned flag, booking afterwards>>
\* a cancel that also marks the booking refunded
cancel_booking_Refunding(b, t, reason) ==
    IF can_cancel(b, t)
    THEN <<TRUE, Booking_save([b EXCEPT !.status = "cancelled",
                                        !.cancellation_reason = reason,
                                        !.payment_status = "refunded"])>>
    ELSE <<FALSE, b>>

cancel_booking(b, t, reason) ==
    IF can_cancel(b, t)
    THEN <<TRUE, Booking_save([b EXCEPT !.status = "cancelled",
                                        !.cancellation_reason = reason])>>
    ELSE <<FALSE, b>>

BookingCancelView_post(caller, pk, reason) ==
    IF ~OwnBooking(bookings, caller, pk)
    THEN [code |-> HTTP_404_NOT_FOUND, store |-> bookings]
    ELSE IF ~Cancel_is_valid(bookings[pk], now, reason)
    THEN [code |-> HTTP_400_BAD_REQUEST, store |-> bookings]
    ELSE LET r == cancel_booking(bookings[pk], now, reason)
         IN  IF r[1]
             THEN [code |-> HTTP_200_OK,
                   store |-> [bookings EXCEPT ![pk] = r[2]]]
             ELSE [code |-> HTTP_400_BAD_REQUEST, store |-> bookings]

\* ------------------------------------- PATCH / DELETE /vehicles/{id}/
NoRate == -1

\* Request bodies of a vehicle update: a new daily_rate (status left out)
VehicleRequests ==
    {[daily_rate |-> r, status |-> Absent] : r \in {3333, 5000}}

\* get_queryset().get(pk) of VehicleDetailView: the caller's own vehicles
OwnVehicle(vs, caller, id) == id \in DOMAIN vs /\ vs[id].owner = caller

\* a bookings row the database no longer holds
DeletedRow ==
    [booking_number |-> 0, customer |-> "none", vehicle |-> 0,
     start_date |-> NoDate, end_date |-> NoDate,
     pickup_location |-> Null, return_location |-> Null,
     daily_rate |-> 0, total_amount |-> 0, deposit_amount |-> 0,
     status |-> "deleted", payment_status |-> "pending", notes |-> Null,
     cancellation_reason |-> NoReason]

\* a vehicle update that also writes the new rate into the vehicle's bookings
VehicleDetailView_update_Propagating(caller, id, data) ==
    IF ~OwnVehicle(vehicles, caller, id)
    THEN [code |-> HTTP_404_NOT_FOUND, vehicles |-> vehicles,
          store |-> bookings]
    ELSE [code |-> HTTP_200_OK,
          vehicles |-> [vehicles EXCEPT ![id] =
              [@ EXCEPT !.daily_rate = IF data.daily_rate # NoRate
                                       THEN data.daily_rate ELSE @,
                        !.status = IF data.status # Absent
                                   THEN data.status ELSE @]],
          store |-> [i \in DOMAIN bookings |->
              IF bookings[i].vehicle = id /\ data.daily_rate # NoRate
              THEN [bookings[i] EXCEPT !.daily_rate = data.daily_rate]
              ELSE bookings[i]]]

\* VehicleDetailView.update / partial_update with VehicleUpdateSerializer
VehicleDetailView_update(caller, id, data) ==
    IF ~OwnVehicle(vehicles, caller, id)
    THEN [code |-> HTTP_404_NOT_FOUND, vehicles |-> vehicles,
          store |-> bookings]
    ELSE [code |-> HTTP_200_OK,
          vehicles |-> [vehicles EXCEPT ![id] =
              [@ EXCEPT !.daily_rate = IF data.daily_rate # NoRate
                                       THEN data.daily_rate ELSE @,
                        !.status = IF data.status # Absent
                                   THEN data.status ELSE @]],
          store |-> bookings]

\* instance.delete(): the vehicle row goes, and on_delete=CASCADE takes the
\* bookings of the vehicle with it
Vehicle_delete(id) ==
    [code |-> HTTP_204_NO_CONTENT,
     vehicles |-> [v \in DOMAIN vehicles \ {id} |-> vehicles[v]],
     store |-> [i \in DOMAIN bookings |->
                  IF bookings[i].vehicle = id
                  THEN DeletedRow ELSE bookings[i]]]

\* destroy without the check for bookings
VehicleDetailView_destroy_NoCheck(caller, id) ==
    IF ~OwnVehicle(vehicles, caller, id)
    THEN [code |-> HTTP_404_NOT_FOUND, vehicles |-> vehicles,
          store |-> bookings]
    ELSE Vehicle_delete(id)

\* VehicleDetailView.destroy
VehicleDetailView_destroy(caller, id) ==
    IF ~OwnVehicle(vehicles, caller, id)
    THEN [code |-> HTTP_404_NOT_FOUND, vehicles |-> vehicles,
          store |-> bookings]
    ELSE IF \E i \in DOMAIN bookings :
                /\ bookings[i].vehicle = id
                /\ bookings[i].status \in {"pending", "confirmed", "active"}
    THEN [code |-> HTTP_400_BAD_REQUEST, vehicles |-> vehicles,
          store |-> bookings]
    ELSE Vehicle_delete(id)

\* ----------------------------------------------------- Payment (model)
PAYMENT_TYPE_CHOICES == {"deposit", "full_payment", "refund"}

Payment_STATUS_CHOICES ==
    {"pending", "processing", "completed", "failed", "cancelled", "refunded"}

\* refund_payment called without an amount
NoAmount == -1

\* the amount argument of refund_payment, in cents
RefundAmounts == {NoAmount} \cup (0..(MaxAmount + 1))

\* Payment.process_payment: the outcomes of the mock processing
process_payment(store, pk) ==
    IF store[pk].status = "pending"
    THEN {[result |-> st = "completed",
           store |-> [store EXCEPT ![pk].status = st]] :
              st \in {"completed", "failed"}}
    ELSE {[result |-> FALSE, store |-> store]}

\* Payment.refund_payment: refund is the pk of the record made, 0 for None;
\* description is the payment the refund record names as refunded
refund_payment(store, pk, amount) ==
    IF store[pk].status = "completed"
    THEN LET refund_amount == IF amount = NoAmount \/ amount = 0
                              THEN store[pk].amount ELSE amount
         IN  [refund |-> Len(store) + 1,
              store |-> Append(store,
                  [amount |-> refund_amount, payment_type |-> "refund",
                   status |-> "completed", description |-> pk])]
    ELSE [refund |-> 0, store |-> store]

\* ------------------------------------------------------------ state machine
Pks == 1..(MaxBookings + 1)

\* Request processes of the concurrent specification: each serves one create
\* request, whose is_valid() and save() are separate steps.
Procs == {"p1", "p2"}

Idle ==
    [pc |-> "idle", caller |-> "none", code |-> 0, pk |-> 0, bn |-> 0,
     data |-> [vehicle_id |-> 0, start_date |-> NoDate, end_date |-> NoDate,
               start_raw |-> "aware", pickup_location |-> Null,
               return_location |-> Null, notes |-> Null]]

\* no instance in memory
NoDraft ==
    [start_date |-> NoDate, end_date |-> NoDate, daily_rate |-> 0,
     total_amount |-> 0, calculated |-> FALSE]

\* A handler's outcome is committed: the store it left is the store.
Commit(res) ==
    /\ bookings' = res.store
    /\ UNCHANGED <<now, vehicles, inflight, draft, payments>>

Init ==
    /\ now = 0
    /\ vehicles = [v \in {1, 2, 3} |->
                     [status |-> IF v = 3 THEN "maintenance" ELSE "available",
                      daily_rate |-> IF v = 2 THEN 3333 ELSE 5000]]
    /\ bookings = <<>>
    /\ inflight = [p \in Procs |-> Idle]
    /\ draft = NoDraft
    /\ payments = <<>>

\* the clock advances between requests
Tick ==
    /\ now + 1 < MaxTime
    /\ now' = now + 1
    /\ UNCHANGED <<vehicles, bookings, inflight, draft, payments>>

\* One request, handled to completion, with its inputs drawn from the given
\* sets; capacity bounds the number of rows the store may hold.  A request
\* that is refused (400, 404) returns before any write: it leaves every
\* variable as it is, so only the accepted requests are steps.
Accepted(res) == res.code \in {HTTP_200_OK, HTTP_201_CREATED}

CreateWith(callers, requests, capacity) ==
    /\ Len(bookings) < capacity
    /\ \E data \in requests, caller \in callers,
          bn \in generate_booking_number(bookings) :
           LET res == BookingListView_create(caller, data, bn)
           IN  Accepted(res) /\ Commit(res)

UpdateWith(callers, requests) ==
    \E pk \in DOMAIN bookings, caller \in callers, data \in requests :
        LET res == BookingDetailView_update(caller, pk, data)
        IN  Accepted(res) /\ Commit(res)

ConfirmWith(callers) ==
    \E pk \in DOMAIN bookings, caller \in callers :
        LET res == BookingConfirmView_post(caller, pk)
        IN  Accepted(res) /\ Commit(res)

CancelWith(callers, reasons) ==
    \E pk \in DOMAIN bookings, caller \in callers, reason \in reasons :
        LET res == BookingCancelView_post(caller, pk, reason)
        IN  Accepted(res) /\ Commit(res)

\* ---- Spec: the life of one booking, every request body of the domains.
\* The booking is alice's; bob is the user who does not own it.
Create == CreateWith({"alice"}, CreateRequests, 1)
Update == UpdateWith(Users, UpdateRequests)
Confirm == ConfirmWith(Users)
Cancel == CancelWith(Users, ReasonInputs)

Next == Tick \/ Create \/ Update \/ Confirm \/ Cancel

Spec == Init /\ [][Next]_vars

\* ---- SpecPair: up to MaxBookings bookings of one customer, requests that
\* move the intervals and the statuses
PairCreateRequests ==
    {d \in CreateRequests :
        /\ d.vehicle_id \in {1, 2}
        /\ d.start_date # NoDate /\ d.end_date # NoDate
        /\ d.start_raw = "aware"}

PairUpdateRequests ==
    {[EmptyPatch EXCEPT !.start_date = t] : t \in Times}
    \cup {[EmptyPatch EXCEPT !.end_date = t] : t \in Times}
    \cup {[EmptyPatch EXCEPT !.status = st] :
              st \in {"pending", "active", "no_show"}}

PairCreate == CreateWith({"alice"}, PairCreateRequests, MaxBookings)
PairUpdate == UpdateWith({"alice"}, PairUpdateRequests)
PairConfirm == ConfirmWith({"alice"})
PairCancel == CancelWith({"alice"}, {NoReason})

NextPair == Tick \/ PairCreate \/ PairUpdate \/ PairConfirm \/ PairCancel

SpecPair == Init /\ [][NextPair]_vars

\* ---- SpecConc: two create requests in flight at once
\* serializer.is_valid(raise_exception=True) of BookingListView.create
ConcValidate(p) ==
    /\ inflight[p].pc = "idle"
    /\ \E caller \in Users, data \in PairCreateRequests :
           inflight' = [inflight EXCEPT ![p] =
               IF Create_is_valid(bookings, vehicles, now, data)
               THEN [Idle EXCEPT !.pc = "validated", !.caller = caller,
                                 !.data = data]
               ELSE [Idle EXCEPT !.pc = "done", !.caller = caller,
                                 !.data = data,
                                 !.code = HTTP_400_BAD_REQUEST]]
    /\ UNCHANGED <<now, vehicles, bookings, draft, payments>>

\* Booking.save, first half: generate_booking_number draws a code that no
\* stored row has at this moment
ConcGenerate(p) ==
    /\ inflight[p].pc = "validated"
    /\ \E bn \in generate_booking_number(bookings) :
           inflight' = [inflight EXCEPT ![p] =
               [@ EXCEPT !.pc = "generated", !.bn = bn]]
    /\ UNCHANGED <<now, vehicles, bookings, draft, payments>>

\* the INSERT without the unique index on booking_number
ConcSave_NoUniqueIndex(p) ==
    /\ inflight[p].pc = "generated"
    /\ Len(bookings) < MaxBookings
    /\ bookings' = Append(bookings,
           Create_create(vehicles, inflight[p].caller, inflight[p].data,
                         inflight[p].bn))
    /\ inflight' = [inflight EXCEPT ![p] =
           [@ EXCEPT !.pc = "done", !.code = HTTP_201_CREATED,
                     !.pk = Len(bookings) + 1]]
    /\ UNCHANGED <<now, vehicles, draft, payments>>

\* Booking.save, second half: super().save() inserts the row, or the unique
\* index on booking_number refuses it (IntegrityError, answered 500)
ConcSave(p) ==
    /\ inflight[p].pc = "generated"
    /\ Len(bookings) < MaxBookings
    /\ IF \E i \in DOMAIN bookings :
              bookings[i].booking_number = inflight[p].bn
       THEN /\ inflight' = [inflight EXCEPT ![p] =
                   [@ EXCEPT !.pc = "done",
                             !.code = HTTP_500_INTERNAL_SERVER_ERROR]]
            /\ UNCHANGED bookings
       ELSE /\ bookings' = Append(bookings,
                   Create_create(vehicles, inflight[p].caller,
                                 inflight[p].data, inflight[p].bn))
            /\ inflight' = [inflight EXCEPT ![p] =
                   [@ EXCEPT !.pc = "done", !.code = HTTP_201_CREATED,
                             !.pk = Len(bookings) + 1]]
    /\ UNCHANGED <<now, vehicles, draft, payments>>

NextConc ==
    Tick \/ \E p \in Procs : ConcValidate(p) \/ ConcGenerate(p) \/ ConcSave(p)

SpecConc == Init /\ [][NextConc]_vars

\* ---- SpecPrice: the amounts of a created booking.  One vehicle whose daily
\* rate is any of Rates, and create requests of up to MaxEnd ticks.
Rates == (1..MaxRate) \cup {3333, 5000}
MaxEnd == MaxTime + 2

PriceCreateRequests ==
    [vehicle_id : {1},
     start_date : Times,
     end_date : 1..MaxEnd,
     start_raw : {"aware", "naive"},
     pickup_location : {"depot"},
     return_location : {"depot"},
     notes : {Null}]

InitPrice ==
    /\ now = 0
    /\ \E r \in Rates :
           vehicles = [v \in {1} |->
                         [status |-> "available", daily_rate |-> r]]
    /\ bookings = <<>>
    /\ inflight = [p \in Procs |-> Idle]
    /\ draft = NoDraft
    /\ payments = <<>>

PriceCreate == CreateWith({"alice"}, PriceCreateRequests, 1)

NextPrice == Tick \/ PriceCreate

SpecPrice == InitPrice /\ [][NextPrice]_vars

\* ---- SpecCalc: the pricing calculation on its own.  An instance in memory
\* whose dates or rate may be missing (a rate of 0 stands for None or zero,
\* both falsy) or whose interval may be empty or reversed.
InitCalc ==
    /\ now = 0
    /\ vehicles = <<>>
    /\ bookings = <<>>
    /\ inflight = [p \in Procs |-> Idle]
    /\ draft \in [start_date : (1..MaxEnd) \cup {NoDate},
                  end_date : (1..MaxEnd) \cup {NoDate},
                  daily_rate : Rates \cup {0},
                  total_amount : {0},
                  calculated : {FALSE}]
    /\ payments = <<>>

\* self.total_amount = self.calculate_total_amount() on the instance
Calculate ==
    /\ ~draft.calculated
    /\ draft' = [draft EXCEPT
                   !.total_amount = calculate_total_amount(
                       draft.start_date, draft.end_date, draft.daily_rate),
                   !.calculated = TRUE]
    /\ UNCHANGED <<now, vehicles, bookings, inflight, payments>>

NextCalc == Calculate

SpecCalc == InitCalc /\ [][NextCalc]_vars

\* ---- SpecFleet: one vehicle of bob's, whose rate and status bob changes
\* and which bob deletes, and the one-tick bookings alice makes of it
FleetCreateRequests ==
    {d \in PairCreateRequests :
        d.vehicle_id = 1 /\ d.end_date = d.start_date + 1}

FleetUpdateRequests ==
    {[EmptyPatch EXCEPT !.status = st] : st \in {"completed", "no_show"}}

InitFleet ==
    /\ now = 0
    /\ vehicles = [v \in {1} |->
                     [status |-> "available", daily_rate |-> 5000,
                      owner |-> "bob"]]
    /\ bookings = <<>>
    /\ inflight = [p \in Procs |-> Idle]
    /\ draft = NoDraft
    /\ payments = <<>>

\* the outcome of a vehicle handler is committed
FleetCommit(res) ==
    /\ vehicles' = res.vehicles
    /\ bookings' = res.store
    /\ UNCHANGED <<now, inflight, draft, payments>>

VehicleUpdate ==
    \E caller \in Users, id \in DOMAIN vehicles, data \in VehicleRequests :
        LET res == VehicleDetailView_update(caller, id, data)
        IN  res.code = HTTP_200_OK /\ FleetCommit(res)

VehicleDestroy ==
    \E caller \in Users, id \in DOMAIN vehicles :
        LET res == VehicleDetailView_destroy(caller, id)
        IN  res.code = HTTP_204_NO_CONTENT /\ FleetCommit(res)

FleetCreate == CreateWith({"alice"}, FleetCreateRequests, MaxBookings)
FleetUpdate == UpdateWith({"alice"}, FleetUpdateRequests)
FleetConfirm == ConfirmWith({"alice"})
FleetCancel == CancelWith({"alice"}, {NoReason})

NextFleet ==
    \/ FleetCreate \/ FleetUpdate \/ FleetConfirm \/ FleetCancel
    \/ VehicleUpdate \/ VehicleDestroy

SpecFleet == InitFleet /\ [][NextFleet]_vars

\* ---- SpecPaid: one stored booking of alice's whose payment_status is any
\* of the field's choices, on a vehicle of rate 0.01 or 50.00, which is then
\* updated, confirmed and cancelled
PaidRates == {1, 5000}

InitPaid ==
    /\ now = 0
    /\ \E r \in PaidRates :
           vehicles = [v \in {1} |->
                         [status |-> "available", daily_rate |-> r]]
    /\ \E data \in CreateRequests, ps \in PAYMENT_STATUS_CHOICES :
           /\ Create_is_valid(<<>>, vehicles, 0, data)
           /\ bookings = <<[Create_create(vehicles, "alice", data, 1)
                               EXCEPT !.payment_status = ps]>>
    /\ inflight = [p \in Procs |-> Idle]
    /\ draft = NoDraft
    /\ payments = <<>>

PaidUpdate == UpdateWith(Users, UpdateRequests)
PaidConfirm == ConfirmWith(Users)
PaidCancel == CancelWith(Users, ReasonInputs)

NextPaid == Tick \/ PaidUpdate \/ PaidConfirm \/ PaidCancel

SpecPaid == InitPaid /\ [][NextPaid]_vars

\* ---- SpecRace: confirm, cancel and update requests of alice on one
\* pending booking, each split into its load-and-check and its save
RaceIdle ==
    [pc |-> "idle", op |-> "none", code |-> 0, pk |-> 0,
     reason |-> NoReason, instance |-> DeletedRow]

RaceReasons == {NoReason, ReasonMaxLength}

RaceUpdateRequests ==
    {[EmptyPatch EXCEPT !.notes = "edited"],
     [EmptyPatch EXCEPT !.status = "confirmed"],
     [EmptyPatch EXCEPT !.end_date = MaxTime]}

InitRace ==
    /\ now = 0
    /\ vehicles = [v \in {1} |->
                     [status |-> "available", daily_rate |-> 5000]]
    /\ \E data \in PairCreateRequests :
           /\ Create_is_valid(<<>>, vehicles, 0, data)
           /\ bookings = <<Create_create(vehicles, "alice", data, 1)>>
    /\ inflight = [p \in Procs |-> RaceIdle]
    /\ draft = NoDraft
    /\ payments = <<>>

\* the request is answered without a save
RaceRefuse(p, op, pk, code) ==
    inflight' = [inflight EXCEPT ![p] =
        [RaceIdle EXCEPT !.pc = "done", !.op = op, !.pk = pk, !.code = code]]

\* the request holds its changed instance, not yet saved
RaceHold(p, op, pk, reason, instance) ==
    inflight' = [inflight EXCEPT ![p] =
        [RaceIdle EXCEPT !.pc = "loaded", !.op = op, !.pk = pk,
                         !.reason = reason, !.instance = instance]]

\* BookingConfirmView.post up to booking.save()
RaceConfirmLoad(p) ==
    /\ inflight[p].pc = "idle"
    /\ \E pk \in DOMAIN bookings :
           IF confirm_allowed(bookings[pk])
           THEN RaceHold(p, "confirm", pk, NoReason,
                         Booking_save([bookings[pk] EXCEPT
                                           !.status = "confirmed"]))
           ELSE RaceRefuse(p, "confirm", pk, HTTP_400_BAD_REQUEST)
    /\ UNCHANGED <<now, vehicles, bookings, draft, payments>>

\* BookingCancelView.post up to the save() inside cancel_booking
RaceCancelLoad(p) ==
    /\ inflight[p].pc = "idle"
    /\ \E pk \in DOMAIN bookings, reason \in RaceReasons :
           IF /\ Cancel_is_valid(bookings[pk], now, reason)
              /\ cancel_booking(bookings[pk], now, reason)[1]
           THEN RaceHold(p, "cancel", pk, reason,
                         cancel_booking(bookings[pk], now, reason)[2])
           ELSE RaceRefuse(p, "cancel", pk, HTTP_400_BAD_REQUEST)
    /\ UNCHANGED <<now, vehicles, bookings, draft, payments>>

\* BookingDetailView.update up to the save() inside serializer.save()
RaceUpdateLoad(p) ==
    /\ inflight[p].pc = "idle"
    /\ \E pk \in DOMAIN bookings, data \in RaceUpdateRequests :
           IF Update_is_valid(bookings[pk], now, data)
           THEN RaceHold(p, "update", pk, NoReason,
                         Update_update(bookings[pk], data))
           ELSE RaceRefuse(p, "update", pk, HTTP_400_BAD_REQUEST)
    /\ UNCHANGED <<now, vehicles, bookings, draft, payments>>

\* Model.save(): every field of the instance the request holds is written
RaceSave(p) ==
    /\ inflight[p].pc = "loaded"
    /\ bookings' = [bookings EXCEPT ![inflight[p].pk] = inflight[p].instance]
    /\ inflight' = [inflight EXCEPT ![p] =
           [@ EXCEPT !.pc = "done", !.code = HTTP_200_OK]]
    /\ UNCHANGED <<now, vehicles, draft, payments>>

NextRace ==
    Tick \/ \E p \in Procs :
                \/ RaceConfirmLoad(p) \/ RaceCancelLoad(p)
                \/ RaceUpdateLoad(p) \/ RaceSave(p)

SpecRace == InitRace /\ [][NextRace]_vars

\* ---- SpecPay: one payment, processed and then refunded any number of
\* times (the refund records are payments that can be refunded as well)
InitPay ==
    /\ now = 0
    /\ vehicles = <<>>
    /\ bookings = <<>>
    /\ inflight = [p \in Procs |-> Idle]
    /\ draft = NoDraft
    /\ \E a \in 1..MaxAmount, ty \in PAYMENT_TYPE_CHOICES \ {"refund"},
          st \in Payment_STATUS_CHOICES :
           payments = <<[amount |-> a, payment_type |-> ty,
                         status |-> st, description |-> 0]>>

ProcessPayment ==
    /\ \E pk \in DOMAIN payments :
           \E res \in process_payment(payments, pk) :
               /\ payments[pk].status = "pending"
               /\ payments' = res.store
    /\ UNCHANGED <<now, vehicles, bookings, inflight, draft>>

RefundPayment ==
    /\ Len(payments) < MaxPayments
    /\ \E pk \in DOMAIN payments, amount \in RefundAmounts :
           LET res == refund_payment(payments, pk, amount)
           IN  res.refund # 0 /\ payments' = res.store
    /\ UNCHANGED <<now, vehicles, bookings, inflight, draft>>

NextPay == ProcessPayment \/ RefundPayment

SpecPay == InitPay /\ [][NextPay]_vars

\* ================================================================== claims
Holding == {"pending", "confirmed", "active"}

\* the half-open overlap of the intervals [s1, e1) and [s2, e2)
Overlap(s1, e1, s2, e2) == s1 < e2 /\ e1 > s2

\* C1: in every reachable state no two stored bookings of one vehicle, both
\* with a holding status, have overlapping intervals.
C1_NoDoubleBooking ==
    \A i \in DOMAIN bookings, j \in DOMAIN bookings :
        (/\ i # j
         /\ bookings[i].vehicle = bookings[j].vehicle
         /\ bookings[i].status \in Holding
         /\ bookings[j].status \in Holding)
        => ~Overlap(bookings[i].start_date, bookings[i].end_date,
                    bookings[j].start_date, bookings[j].end_date)

\* C2: of two create requests in flight at once for overlapping intervals on
\* one vehicle, at most one is answered 201.
C2_ConcurrentCreatesExclude ==
    \A p \in Procs, q \in Procs :
        (/\ p # q
         /\ inflight[p].pc = "done" /\ inflight[p].code = HTTP_201_CREATED
         /\ inflight[q].pc = "done"
         /\ inflight[p].data.vehicle_id = inflight[q].data.vehicle_id
         /\ Overlap(inflight[p].data.start_date, inflight[p].data.end_date,
                    inflight[q].data.start_date, inflight[q].data.end_date))
        => inflight[q].code # HTTP_201_CREATED

\* the create request overlaps a stored holding booking of its vehicle
OverlapsHolding(data) ==
    /\ data.start_date # NoDate
    /\ data.end_date # NoDate
    /\ \E i \in DOMAIN bookings :
           /\ bookings[i].vehicle = data.vehicle_id
           /\ bookings[i].status \in Holding
           /\ bookings[i].start_date < data.end_date
           /\ bookings[i].end_date > data.start_date

\* C3: a create request whose interval overlaps a stored holding booking of
\* the same vehicle is answered 400 and leaves the store as it was.
C3_OverlappingCreateRejected ==
    \A caller \in Users, data \in CreateRequests, bn \in BookingNumbers :
        OverlapsHolding(data) =>
            BookingListView_create(caller, data, bn) =
                [code |-> HTTP_400_BAD_REQUEST, store |-> bookings]

\* C3 witness: a request every field validator accepts is refused only for
\* overlapping a stored holding booking.
C3_Witness ==
    \E data \in CreateRequests :
        /\ OverlapsHolding(data)
        /\ Create_validate_vehicle_id(vehicles, data.vehicle_id)
        /\ data.start_date > now
        /\ data.end_date > data.start_date
        /\ BookingListView_create("bob", data, 1).code = HTTP_400_BAD_REQUEST
        /\ Len(bookings) < MaxBookings

\* the interval booking pk would have after the update, against the others
UpdateWouldOverlap(pk, data) ==
    LET s == IF data.start_date # NoDate
             THEN data.start_date ELSE bookings[pk].start_date
        e == IF data.end_date # NoDate
             THEN data.end_date ELSE bookings[pk].end_date
    IN  \E j \in DOMAIN bookings :
            /\ j # pk
            /\ bookings[j].vehicle = bookings[pk].vehicle
            /\ bookings[j].status \in Holding
            /\ bookings[j].start_date < e
            /\ bookings[j].end_date > s

\* C4: an update that changes a date and would make the booking overlap
\* another holding booking of its vehicle is rejected, the store unchanged.
C4_UpdateRechecksOverlap ==
    \A pk \in DOMAIN bookings, data \in UpdateRequests :
        (/\ (data.start_date # NoDate \/ data.end_date # NoDate)
         /\ UpdateWouldOverlap(pk, data))
        => BookingDetailView_update(bookings[pk].customer, pk, data) =
               [code |-> HTTP_400_BAD_REQUEST, store |-> bookings]

AllowedTransitions ==
    {<<"pending", "confirmed">>, <<"confirmed", "active">>,
     <<"active", "completed">>, <<"pending", "cancelled">>,
     <<"confirmed", "cancelled">>}
    \cup {<<st, "no_show">> : st \in STATUS_CHOICES}

\* C5: every status change of a stored booking follows an allowed edge.
C5_OnlyAllowedTransitions ==
    [][\A i \in DOMAIN bookings :
           bookings'[i].status # bookings[i].status =>
               <<bookings[i].status, bookings'[i].status>>
                   \in AllowedTransitions]_vars

\* C6: a booking that is completed, cancelled or no_show keeps its status.
C6_TerminalStatusesStay ==
    [][\A i \in DOMAIN bookings :
           bookings[i].status \in {"completed", "cancelled", "no_show"} =>
               bookings'[i].status = bookings[i].status]_vars

\* what the cancel claims require of a cancel request of the customer
CancelAsClaimed(pk, reason) ==
    LET b == bookings[pk]
        res == BookingCancelView_post(b.customer, pk, reason)
    IN  IF b.status \in {"pending", "confirmed"} /\ b.start_date > now
        THEN /\ res.code = HTTP_200_OK
             /\ res.store[pk].status = "cancelled"
             /\ res.store[pk].cancellation_reason = reason
        ELSE /\ res.code = HTTP_400_BAD_REQUEST
             /\ res.store = bookings

\* C7 as stated: the customer's cancel succeeds if and only if the status is
\* pending or confirmed and the start is after now, whatever the body.
C7_CancelIff ==
    \A pk \in DOMAIN bookings, reason \in ReasonInputs :
        CancelAsClaimed(pk, reason)

\* C7 amended: the same for a body whose cancellation_reason is absent or a
\* non-blank text of at most 500 characters; any other body is answered 400
\* and changes nothing.
C7_CancelIffWellFormed ==
    \A pk \in DOMAIN bookings, reason \in ReasonInputs :
        IF reason = NoReason \/ (1 <= reason /\ reason <= 500)
        THEN CancelAsClaimed(pk, reason)
        ELSE BookingCancelView_post(bookings[pk].customer, pk, reason) =
                 [code |-> HTTP_400_BAD_REQUEST, store |-> bookings]

\* C7 witness: a cancel with a reason went through, and a further cancel of
\* that booking is refused.
C7_Witness ==
    \E pk \in DOMAIN bookings :
        /\ bookings[pk].status = "cancelled"
        /\ bookings[pk].cancellation_reason = 500
        /\ bookings[pk].start_date > now
        /\ BookingCancelView_post(bookings[pk].customer, pk, NoReason).code
               = HTTP_400_BAD_REQUEST

\* C8: the customer's confirm succeeds if and only if the status is pending,
\* and then makes it confirmed; otherwise it is answered 400 and changes
\* nothing.
C8_ConfirmIffPending ==
    \A pk \in DOMAIN bookings :
        LET b == bookings[pk]
            res == BookingConfirmView_post(b.customer, pk)
        IN  IF b.status = "pending"
            THEN /\ res.code = HTTP_200_OK
                 /\ res.store = [bookings EXCEPT ![pk].status = "confirmed"]
            ELSE /\ res.code = HTTP_400_BAD_REQUEST
                 /\ res.store = bookings

\* C8 witness: a booking was confirmed, and confirming it again is refused.
C8_Witness ==
    \E pk \in DOMAIN bookings :
        /\ bookings[pk].status = "confirmed"
        /\ BookingConfirmView_post(bookings[pk].customer, pk).code
               = HTTP_400_BAD_REQUEST

\* C9: every update request of the customer on a completed or cancelled
\* booking is rejected and leaves the store as it was.
C9_ClosedBookingNotUpdated ==
    \A pk \in DOMAIN bookings, data \in UpdateRequests :
        bookings[pk].status \in {"completed", "cancelled"} =>
            BookingDetailView_update(bookings[pk].customer, pk, data) =
                [code |-> HTTP_400_BAD_REQUEST, store |-> bookings]

\* C10: every stored booking ends strictly after it starts.
C10_EndAfterStart ==
    \A i \in DOMAIN bookings : bookings[i].end_date > bookings[i].start_date

Abs(x) == IF x < 0 THEN -x ELSE x

\* amount is the whole number of cents nearest to daily_rate x the length of
\* [start_date, end_date) in days (a tie may go either way)
NearestCentOfRent(amount, b) ==
    2 * Abs(amount * TicksPerDay
            - b.daily_rate * (b.end_date - b.start_date))
        <= TicksPerDay

\* C11: in every reachable state every stored booking has total_amount equal
\* to daily_rate x (end - start in days), to the cent; also after an update
\* that changed start_date or end_date.
C11_TotalFollowsInterval ==
    \A i \in DOMAIN bookings :
        NearestCentOfRent(bookings[i].total_amount, bookings[i])

\* C12: an update, confirm or cancel request of a user who is not the
\* booking's customer is answered 404 and leaves the store as it was.
C12_OnlyCustomerMutates ==
    \A pk \in DOMAIN bookings :
      \A caller \in Users \ {bookings[pk].customer} :
        LET refused == [code |-> HTTP_404_NOT_FOUND, store |-> bookings]
        IN  /\ \A data \in UpdateRequests :
                   BookingDetailView_update(caller, pk, data) = refused
            /\ BookingConfirmView_post(caller, pk) = refused
            /\ \A reason \in ReasonInputs :
                   BookingCancelView_post(caller, pk, reason) = refused

\* C12 witness: a booking whose customer could update, confirm and cancel it
\* right now, while the same requests of another user get 404.
C12_Witness ==
    \E pk \in DOMAIN bookings, caller \in Users :
        LET owner == bookings[pk].customer
            patch == [EmptyPatch EXCEPT !.notes = "edited"]
        IN  /\ caller # owner
            /\ bookings[pk].end_date > bookings[pk].start_date
            /\ BookingDetailView_update(owner, pk, patch).code = HTTP_200_OK
            /\ BookingConfirmView_post(owner, pk).code = HTTP_200_OK
            /\ BookingCancelView_post(owner, pk, NoReason).code = HTTP_200_OK
            /\ BookingDetailView_update(caller, pk, patch).code
                   = HTTP_404_NOT_FOUND
            /\ BookingConfirmView_post(caller, pk).code = HTTP_404_NOT_FOUND
            /\ BookingCancelView_post(caller, pk, NoReason).code
                   = HTTP_404_NOT_FOUND

\* C13: a create, update, confirm or cancel request that is not answered
\* 200 / 201 leaves the store exactly as it was.
C13_RejectionChangesNothing ==
    \A caller \in Users :
        /\ \A data \in CreateRequests, bn \in BookingNumbers :
               LET res == BookingListView_create(caller, data, bn)
               IN  res.code # HTTP_201_CREATED => res.store = bookings
        /\ \A pk \in Pks :
               /\ \A data \in UpdateRequests :
                      LET res == BookingDetailView_update(caller, pk, data)
                      IN  res.code # HTTP_200_OK => res.store = bookings
               /\ LET res == BookingConfirmView_post(caller, pk)
                  IN  res.code # HTTP_200_OK => res.store = bookings
               /\ \A reason \in ReasonInputs :
                      LET res == BookingCancelView_post(caller, pk, reason)
                      IN  res.code # HTTP_200_OK => res.store = bookings

\* C13 witness: a cancelled booking whose customer is refused a create (start
\* not in the future), an update of the status, a confirm and a cancel.
C13_Witness ==
    \E pk \in DOMAIN bookings, data \in CreateRequests :
        LET owner == bookings[pk].customer
        IN  /\ bookings[pk].status = "cancelled"
            /\ bookings[pk].end_date > bookings[pk].start_date
            /\ data.vehicle_id = 2 /\ data.start_date = now
            /\ data.end_date > now /\ data.start_raw = "aware"
            /\ BookingListView_create(owner, data, 2).code
                   = HTTP_400_BAD_REQUEST
            /\ BookingDetailView_update(owner, pk,
                   [EmptyPatch EXCEPT !.status = "pending"]).code
                   = HTTP_400_BAD_REQUEST
            /\ BookingConfirmView_post(owner, pk).code = HTTP_400_BAD_REQUEST
            /\ BookingCancelView_post(owner, pk, NoReason).code
                   = HTTP_400_BAD_REQUEST

\* C14: no two stored bookings share a booking_number, also when two
\* creates in flight at once drew the same code.
C14_BookingNumbersUnique ==
    \A i \in DOMAIN bookings, j \in DOMAIN bookings :
        i # j => bookings[i].booking_number # bookings[j].booking_number

\* C14 witness: two creates drew the same code at once; one row holds it and
\* the other request was refused by the unique index.
C14_Witness ==
    \E p \in Procs, q \in Procs :
        /\ p # q
        /\ inflight[p].pc = "done" /\ inflight[p].code = HTTP_201_CREATED
        /\ inflight[q].pc = "done"
        /\ inflight[q].code = HTTP_500_INTERNAL_SERVER_ERROR
        /\ inflight[q].bn = inflight[p].bn
        /\ bookings[inflight[p].pk].booking_number = inflight[p].bn

\* C15: a create request on the vehicle of a stored holding booking that
\* starts at the very instant that booking ends, is otherwise valid and
\* overlaps no other holding booking, is answered 201 and stored.
C15_TouchingCreateAccepted ==
    \A i \in DOMAIN bookings, data \in PairCreateRequests,
       bn \in BookingNumbers :
        (/\ bookings[i].status \in Holding
         /\ data.vehicle_id = bookings[i].vehicle
         /\ data.start_date = bookings[i].end_date
         /\ data.end_date > data.start_date
         /\ data.start_date > now
         /\ \A j \in DOMAIN bookings \ {i} :
                (bookings[j].vehicle = data.vehicle_id
                    /\ bookings[j].status \in Holding)
                => ~Overlap(bookings[j].start_date, bookings[j].end_date,
                            data.start_date, data.end_date))
        => LET res == BookingListView_create("alice", data, bn)
           IN  /\ res.code = HTTP_201_CREATED
               /\ Len(res.store) = Len(bookings) + 1
               /\ res.store[Len(res.store)].vehicle = data.vehicle_id
               /\ res.store[Len(res.store)].start_date = data.start_date
               /\ res.store[Len(res.store)].end_date = data.end_date
               /\ SubSeq(res.store, 1, Len(bookings)) = bookings

\* C15 witness: two holding bookings of one vehicle, both stored by create
\* with their intervals untouched since, the second starting when the first
\* ends.
C15_Witness ==
    \E i \in DOMAIN bookings, j \in DOMAIN bookings :
        /\ i < j
        /\ bookings[i].vehicle = bookings[j].vehicle
        /\ bookings[i].status \in Holding /\ bookings[j].status \in Holding
        /\ bookings[i].start_date < bookings[i].end_date
        /\ bookings[j].start_date = bookings[i].end_date
        /\ bookings[j].start_date < bookings[j].end_date
        /\ NearestCentOfRent(bookings[i].total_amount, bookings[i])
        /\ NearestCentOfRent(bookings[j].total_amount, bookings[j])

\* the row a create request answered 201 has stored
Created(res) == res.store[Len(res.store)]

\* C16 as stated: the booking stored by create has total_amount exactly the
\* vehicle's daily rate times the length of the interval in days, status
\* pending and payment_status pending.
C16_CreateTotalExact ==
    \A data \in PriceCreateRequests, bn \in BookingNumbers :
        LET res == BookingListView_create("alice", data, bn)
        IN  res.code = HTTP_201_CREATED =>
              /\ Created(res).daily_rate = vehicles[data.vehicle_id].daily_rate
              /\ Created(res).total_amount * TicksPerDay =
                     vehicles[data.vehicle_id].daily_rate
                         * (data.end_date - data.start_date)
              /\ Created(res).status = "pending"
              /\ Created(res).payment_status = "pending"

\* C16 amended: the booking stored by create has total_amount equal to the
\* vehicle's daily rate times the length of the interval in days, rounded to
\* the nearest cent, status pending and payment_status pending.
C16_CreateTotalToTheCent ==
    \A data \in PriceCreateRequests, bn \in BookingNumbers :
        LET res == BookingListView_create("alice", data, bn)
        IN  res.code = HTTP_201_CREATED =>
              /\ Created(res).daily_rate = vehicles[data.vehicle_id].daily_rate
              /\ Created(res).start_date = data.start_date
              /\ Created(res).end_date = data.end_date
              /\ NearestCentOfRent(Created(res).total_amount, Created(res))
              /\ Created(res).status = "pending"
              /\ Created(res).payment_status = "pending"

\* C16 witness: the vehicle costs 50.00 a day and the stored booking, made
\* by create for exactly 2 days, has total 100.00 and is pending.
C16_Witness ==
    /\ Len(bookings) = 1
    /\ vehicles[1].daily_rate = 5000
    /\ bookings[1].daily_rate = 5000
    /\ bookings[1].end_date - bookings[1].start_date = 4
    /\ bookings[1].total_amount = 10000
    /\ bookings[1].status = "pending"
    /\ bookings[1].payment_status = "pending"

\* C17: the booking stored by create has deposit_amount equal to 0.2 x its
\* total_amount rounded to the cent: of all whole numbers of cents the
\* deposit is the one nearest to a fifth of the stored total.
C17_DepositIsFifthOfTotal ==
    \A data \in PriceCreateRequests, bn \in BookingNumbers :
        LET res == BookingListView_create("alice", data, bn)
        IN  res.code = HTTP_201_CREATED =>
              Abs(5 * Created(res).deposit_amount - Created(res).total_amount)
                  <= 2

\* C17 witness: a stored booking of a proper interval for which 0.2 x rate x
\* days is not a whole number of cents.
C17_Witness ==
    \E i \in DOMAIN bookings :
        /\ bookings[i].end_date > bookings[i].start_date
        /\ (bookings[i].daily_rate
              * (bookings[i].end_date - bookings[i].start_date) * 2)
               % (TicksPerDay * 10) # 0
        /\ (bookings[i].daily_rate
              * (bookings[i].end_date - bookings[i].start_date))
               % TicksPerDay # 0

\* the inputs C18 calls degenerate
Degenerate(d) ==
    \/ d.daily_rate = 0
    \/ d.start_date = NoDate
    \/ d.end_date = NoDate
    \/ d.end_date <= d.start_date

\* C18: the pricing calculation returns zero when the rate, the start or the
\* end is missing or when end <= start, and never a negative amount.
C18_DegenerateGivesZero ==
    draft.calculated =>
        /\ Degenerate(draft) => draft.total_amount = 0
        /\ draft.total_amount >= 0

\* a create body that is in order but for its vehicle: both dates given with
\* an offset, start in the future, end after start
DatesInOrder(data) ==
    /\ data.start_date # NoDate /\ data.end_date # NoDate
    /\ data.start_raw = "aware"
    /\ data.start_date > now
    /\ data.end_date > data.start_date

\* C19: a create for a vehicle id that does not exist is answered 404, a
\* create for a vehicle that is not available is answered 400; neither
\* stores a booking.
C19_VehicleErrors ==
    \A caller \in Users, data \in CreateRequests, bn \in BookingNumbers :
        LET res == BookingListView_create(caller, data, bn)
        IN  DatesInOrder(data) =>
              /\ data.vehicle_id \notin DOMAIN vehicles =>
                     res = [code |-> HTTP_404_NOT_FOUND, store |-> bookings]
              /\ (data.vehicle_id \in DOMAIN vehicles
                     /\ vehicles[data.vehicle_id].status # "available") =>
                     res = [code |-> HTTP_400_BAD_REQUEST, store |-> bookings]

\* C20: a create is answered 201 only if its start is strictly after now,
\* and an update that carries a start_date is answered 200 only if that
\* start is strictly after now; the accepted start is the one stored.
C20_StartStrictlyFuture ==
    \A caller \in Users :
        /\ \A data \in CreateRequests, bn \in BookingNumbers :
               LET res == BookingListView_create(caller, data, bn)
               IN  res.code = HTTP_201_CREATED =>
                     /\ data.start_date > now
                     /\ Created(res).start_date = data.start_date
        /\ \A pk \in DOMAIN bookings, data \in UpdateRequests :
               LET res == BookingDetailView_update(caller, pk, data)
               IN  (data.start_date # NoDate /\ res.code = HTTP_200_OK) =>
                     /\ data.start_date > now
                     /\ res.store[pk].start_date = data.start_date

\* C20 witness: time has passed; a create and an update that start exactly
\* now are refused, the same requests starting one tick later are accepted.
C20_Witness ==
    \E pk \in DOMAIN bookings, data \in CreateRequests :
        LET owner == bookings[pk].customer
            later == [data EXCEPT !.start_date = now + 1]
        IN  /\ now >= 1
            /\ data.vehicle_id \in DOMAIN vehicles
            /\ data.vehicle_id # bookings[pk].vehicle
            /\ data.start_date = now /\ data.end_date > now + 1
            /\ data.start_raw = "aware"
            /\ BookingListView_create(owner, data, 2).code
                   = HTTP_400_BAD_REQUEST
            /\ BookingListView_create(owner, later, 2).code
                   = HTTP_201_CREATED
            /\ BookingDetailView_update(owner, pk,
                   [EmptyPatch EXCEPT !.start_date = now]).code
                   = HTTP_400_BAD_REQUEST
            /\ BookingDetailView_update(owner, pk,
                   [EmptyPatch EXCEPT !.start_date = now + 1]).code
                   = HTTP_200_OK

\* C21: list, search and retrieve give a caller only bookings whose customer
\* is the caller; retrieving another customer's booking is answered 404.
C21_ReadsOwnBookingsOnly ==
    \A caller \in Users :
        /\ \A pk \in BookingListView_list(caller).result :
               bookings[pk].customer = caller
        /\ \A from_date \in DateParams, to_date \in DateParams :
               \A pk \in BookingSearchView_list(caller, from_date,
                                                to_date).result :
                   bookings[pk].customer = caller
        /\ \A pk \in DOMAIN bookings :
               LET res == BookingDetailView_retrieve(caller, pk)
               IN  IF bookings[pk].customer = caller
                   THEN res.code = HTTP_200_OK /\ res.result = {pk}
                   ELSE res.code = HTTP_404_NOT_FOUND /\ res.result = {}

\* C21 witness: two customers have a booking each; each one's list holds
\* their own and the other's is not found.
C21_Witness ==
    \E i \in DOMAIN bookings, j \in DOMAIN bookings :
        /\ bookings[i].customer = "alice" /\ bookings[j].customer = "bob"
        /\ BookingListView_list("alice").result = {i}
        /\ BookingListView_list("bob").result = {j}
        /\ BookingDetailView_retrieve("alice", j).code = HTTP_404_NOT_FOUND
        /\ BookingDetailView_retrieve("bob", j).code = HTTP_200_OK

\* C22: search returns exactly the caller's bookings with start_date >= from
\* (from a bare date) and end_date <= to (to a bare date), bounds included;
\* a from or to that is not a bare date counts as absent, and the answer is
\* always 200.
C22_SearchWindow ==
    \A caller \in Users, from_date \in DateParams, to_date \in DateParams :
        LET res == BookingSearchView_list(caller, from_date, to_date)
        IN  /\ res.code = HTTP_200_OK
            /\ res.result =
                 {pk \in DOMAIN bookings :
                    /\ bookings[pk].customer = caller
                    /\ from_date.kind = "date" =>
                         bookings[pk].start_date
                             >= from_date.value * TicksPerDay
                    /\ to_date.kind = "date" =>
                         bookings[pk].end_date <= to_date.value * TicksPerDay}

\* C22 witness: one customer's bookings [1,2) and [2,3); from = day 1 (tick 2)
\* keeps the one that starts at that instant and drops the other, to = day 1
\* keeps the one that ends at that instant and drops the other, and a bound
\* that is not a bare date changes nothing.
C22_Witness ==
    \E i \in DOMAIN bookings, j \in DOMAIN bookings :
        LET day == [kind |-> "date", value |-> 1]
            none == [kind |-> "absent", value |-> 0]
            text == [kind |-> "text", value |-> 0]
        IN  /\ bookings[i].customer = "alice" /\ bookings[j].customer = "alice"
            /\ bookings[i].start_date = 1 /\ bookings[i].end_date = 2
            /\ bookings[j].start_date = 2 /\ bookings[j].end_date = 3
            /\ BookingSearchView_list("alice", day, none).result = {j}
            /\ BookingSearchView_list("alice", none, day).result = {i}
            /\ BookingSearchView_list("alice", text, text).result = {i, j}

\* C23: a booking's daily_rate is the vehicle's daily rate when the booking
\* is created and is the same ever after: no step (a change of the vehicle's
\* rate included) and no update, confirm or cancel request alters it.
C23_RateIsSnapshot ==
    /\ [](\A pk \in DOMAIN bookings :
            LET owner == bookings[pk].customer
                rate == bookings[pk].daily_rate
            IN  /\ \A data \in UpdateRequests :
                       BookingDetailView_update(owner, pk, data)
                           .store[pk].daily_rate = rate
                /\ BookingConfirmView_post(owner, pk).store[pk].daily_rate
                       = rate
                /\ \A reason \in ReasonInputs :
                       BookingCancelView_post(owner, pk, reason)
                           .store[pk].daily_rate = rate)
    /\ [][\A i \in DOMAIN bookings' :
              IF i \in DOMAIN bookings
              THEN bookings'[i].status # "deleted" =>
                       bookings'[i].daily_rate = bookings[i].daily_rate
              ELSE bookings'[i].daily_rate
                       = vehicles[bookings'[i].vehicle].daily_rate]_vars

\* C23 witness: a confirmed booking whose vehicle now has another daily rate
\* than the one the booking carries.
C23_Witness ==
    \E i \in DOMAIN bookings :
        /\ bookings[i].status = "confirmed"
        /\ bookings[i].vehicle \in DOMAIN vehicles
        /\ bookings[i].daily_rate = 5000
        /\ vehicles[bookings[i].vehicle].daily_rate = 3333

\* the vehicle has a booking that is pending, confirmed or active
HasHolding(id) ==
    \E i \in DOMAIN bookings :
        bookings[i].vehicle = id /\ bookings[i].status \in Holding

\* C27: the delete of a vehicle that has a holding booking is answered 400
\* (404 to who does not own it) and leaves the vehicle and every booking as
\* they were; every holding booking refers to an existing vehicle.
C27_BookedVehicleStays ==
    /\ \A caller \in Users, id \in DOMAIN vehicles :
           HasHolding(id) =>
               VehicleDetailView_destroy(caller, id) =
                   [code |-> IF vehicles[id].owner = caller
                             THEN HTTP_400_BAD_REQUEST
                             ELSE HTTP_404_NOT_FOUND,
                    vehicles |-> vehicles, store |-> bookings]
    /\ \A i \in DOMAIN bookings :
           bookings[i].status \in Holding =>
               bookings[i].vehicle \in DOMAIN vehicles

\* C27 witness: the vehicle has a cancelled and a holding booking and its
\* owner's delete is refused.
C27_Witness ==
    \E i \in DOMAIN bookings, j \in DOMAIN bookings, id \in DOMAIN vehicles :
        /\ bookings[i].vehicle = id /\ bookings[i].status = "cancelled"
        /\ bookings[j].vehicle = id /\ bookings[j].status \in Holding
        /\ VehicleDetailView_destroy(vehicles[id].owner, id).code
               = HTTP_400_BAD_REQUEST

\* the payment status, the interval and the amounts of a booking
Settled(b) ==
    <<b.payment_status, b.start_date, b.end_date, b.daily_rate,
      b.total_amount, b.deposit_amount>>

\* C24: confirm and cancel leave the booking's payment_status as it was,
\* whatever its value, and leave its interval, daily_rate, total_amount and
\* deposit_amount as they were.
C24_ConfirmCancelKeepPayment ==
    \A pk \in DOMAIN bookings, caller \in Users :
        /\ Settled(BookingConfirmView_post(caller, pk).store[pk])
               = Settled(bookings[pk])
        /\ \A reason \in ReasonInputs :
               Settled(BookingCancelView_post(caller, pk, reason).store[pk])
                   = Settled(bookings[pk])

\* C24 witness: a paid booking has been cancelled, and its total is the one
\* of its interval at its rate.
C24_Witness ==
    \E pk \in DOMAIN bookings :
        /\ bookings[pk].status = "cancelled"
        /\ bookings[pk].payment_status = "paid"
        /\ bookings[pk].end_date > bookings[pk].start_date
        /\ bookings[pk].total_amount > 0

\* C25: when confirm, cancel and update requests on the same booking
\* interleave, a cancel that was answered with success is never undone: from
\* then on the booking is cancelled and stores the reason that cancel gave.
C25_CancelIsFinal ==
    \A p \in Procs :
        (/\ inflight[p].pc = "done"
         /\ inflight[p].op = "cancel"
         /\ inflight[p].code = HTTP_200_OK)
        => /\ bookings[inflight[p].pk].status = "cancelled"
           /\ bookings[inflight[p].pk].cancellation_reason
                  = inflight[p].reason

\* the stored bookings of the request's vehicle that overlap its interval
Overlapped(data) ==
    {i \in DOMAIN bookings :
        /\ bookings[i].vehicle = data.vehicle_id
        /\ Overlap(bookings[i].start_date, bookings[i].end_date,
                   data.start_date, data.end_date)}

\* C26: a cancelled, completed or no_show booking does not block its
\* vehicle: a create request for an available vehicle, with a future start
\* before its end, that overlaps only such bookings is answered 201 and
\* stored.
C26_ClosedBookingFreesVehicle ==
    \A data \in PairCreateRequests, bn \in BookingNumbers :
        (/\ data.vehicle_id \in DOMAIN vehicles
         /\ is_available(vehicles[data.vehicle_id])
         /\ data.start_date > now
         /\ data.end_date > data.start_date
         /\ Overlapped(data) # {}
         /\ \A i \in Overlapped(data) :
                bookings[i].status \in {"cancelled", "completed", "no_show"})
        => LET res == BookingListView_create("alice", data, bn)
           IN  /\ res.code = HTTP_201_CREATED
               /\ Len(res.store) = Len(bookings) + 1
               /\ res.store[Len(res.store)].start_date = data.start_date
               /\ res.store[Len(res.store)].end_date = data.end_date
               /\ res.store[Len(res.store)].vehicle = data.vehicle_id

\* C26 witness: a cancelled booking, and a pending booking made after it of
\* the same vehicle over the same interval.
C26_Witness ==
    \E i \in DOMAIN bookings, j \in DOMAIN bookings :
        /\ i < j
        /\ bookings[i].status = "cancelled"
        /\ bookings[j].status = "pending"
        /\ bookings[j].vehicle = bookings[i].vehicle
        /\ bookings[i].start_date < bookings[i].end_date
        /\ Overlap(bookings[i].start_date, bookings[i].end_date,
                   bookings[j].start_date, bookings[j].end_date)

\* C28: for every booking and every instant, can_cancel() and is_upcoming
\* have the same value, and neither is true while is_active, is_completed or
\* is_cancelled is true.
C28_CanCancelIsUpcoming ==
    \A pk \in DOMAIN bookings, t \in 0..MaxTime :
        LET b == bookings[pk]
        IN  /\ can_cancel(b, t) = is_upcoming(b, t)
            /\ (is_active(b, t) \/ is_completed(b) \/ is_cancelled(b))
                   => (~can_cancel(b, t) /\ ~is_upcoming(b, t))

\* C28 witness: a booking that is active at the current instant, which was
\* upcoming and cancellable at the instant before its start.
C28_Witness ==
    \E pk \in DOMAIN bookings :
        /\ is_active(bookings[pk], now)
        /\ bookings[pk].start_date < bookings[pk].end_date
        /\ bookings[pk].start_date = now
        /\ ~can_cancel(bookings[pk], now)
        /\ is_upcoming([bookings[pk] EXCEPT !.status = "confirmed"], now - 1)

\* the fields of a booking that no update request can name, total_amount
\* apart
Fixed(b) ==
    <<b.customer, b.vehicle, b.booking_number, b.deposit_amount,
      b.daily_rate, b.payment_status, b.cancellation_reason>>

RefundsOf(pk) ==
    {i \in DOMAIN payments :
        payments[i].payment_type = "refund" /\ payments[i].description = pk}

RECURSIVE SumOfAmounts(_)
SumOfAmounts(S) ==
    IF S = {} THEN 0
    ELSE LET i == CHOOSE x \in S : TRUE
         IN  payments[i].amount + SumOfAmounts(S \ {i})

\* the second half of C30 alone: refund_payment on a payment that is not
\* completed makes no record and returns nothing.
RefundNeedsCompleted ==
    \A pk \in DOMAIN payments, amount \in RefundAmounts :
        payments[pk].status # "completed" =>
            refund_payment(payments, pk, amount)
                = [refund |-> 0, store |-> payments]

\* C30: after any sequence of refund_payment calls the amounts of the refund
\* records made for a payment sum to no more than the payment's amount;
\* refund_payment on a payment that is not completed makes no record and
\* returns nothing.
C30_RefundsWithinPayment ==
    /\ \A pk \in DOMAIN payments :
           SumOfAmounts(RefundsOf(pk)) <= payments[pk].amount
    /\ RefundNeedsCompleted
====
